---- MODULE Spec2Model ----
(***************************************************************************)
(* Campus-Sync-Edge-Ai: skill graph, study plan, mastery store and quiz.   *)
(*                                                                         *)
(* The module holds several specifications over one set of variables:      *)
(*   Spec      the ResumeProvider store together with the StudyHub quiz    *)
(*   SpecGate  the store driven with plan-sized analyses, read by the gate *)
(*   SpecView  the pan/zoom viewport of the skill graph                    *)
(*   SpecGraph node and edge building of the skill graph                   *)
(*   SpecDist  the greedy day distribution                                 *)
(*   SpecPlan  buildPlan                                                   *)
(*   SpecGap   the SkillGap page with its dependencies fetch               *)
(*   SpecLoad  the store reloaded over a storage that may hold bad text    *)
(*   SpecHist  the score history over the days                             *)
(*   SpecReady the readiness class of a score                              *)
(* A specification leaves the variables of the parts it does not use at    *)
(* their initial values.                                                   *)
(***************************************************************************)
EXTENDS Integers, Sequences, FiniteSets, TLC

VARIABLES
    \* ResumeProvider state (ResumeContext)
    analysis, prediction, previousAnalysis,
    masteredSkills, completedTasks, dailyCommitment,
    \* local storage: one field per key, [has |-> item present, v |-> stored value]
    ls,
    \* StudyHub instance owned by ProgressTracking
    selectedSkill, quiz, currentQ, answers, quizFinished, score, timers, isPinned,
    \* SkillGraphViz viewport: view {x, y, scale}, isDragging, prevPos ref,
    \* and a history of the current drag: the position where the primary button
    \* was pressed plus what the pointer moves have added to the translate since
    \* and whether the view stands as Reset View left it: "no", "once" (it
    \* restored a moved or zoomed view) or "again" (pressed on the restored view)
    view, isDragging, prevPos, dragReach, viewReset,
    \* SkillGraphViz props and the nodes and edges built from them by a render
    gProps, gNodes, gEdges,
    \* scheduler: task list, daily budget in minutes, day buckets, and whether
    \* the buckets have been computed for the current inputs
    dTasks, dailyMinutes, buckets, distributed,
    \* ImprovementPlan: the inputs of buildPlan and the plan it returned
    pCore, pOptional, plan,
    \* SkillGap page: mounted or not, how often it has been mounted, the
    \* instances whose dependencies fetch is in flight, the deps and showGraph
    \* state, and whether setDeps was called for an instance already torn down
    gapMounted, gapInstance, inFlight, deps, showGraph, staleSetDeps,
    \* the calendar day (days since the first one), and for each entry of the
    \* stored score history the day it was last written (a history variable)
    now, savedAt,
    \* ReadinessScore page: the score it shows and its current class
    readinessScore, currentClass,
    \* the uncaught exception, if any: "none", "effect" (thrown while mounting
    \* or rendering, the application is gone until a reload) or "handler"
    thrown

storeVars == <<analysis, prediction, previousAnalysis, masteredSkills,
               completedTasks, dailyCommitment, ls>>
hubVars == <<selectedSkill, quiz, currentQ, answers, quizFinished, score, timers, isPinned>>
viewVars == <<view, isDragging, prevPos, dragReach, viewReset>>
graphVars == <<gProps, gNodes, gEdges>>
distVars == <<dTasks, dailyMinutes, buckets, distributed>>
planVars == <<pCore, pOptional, plan>>
gapVars == <<gapMounted, gapInstance, inFlight, deps, showGraph, staleSetDeps>>
histVars == <<now, savedAt>>
readyVars == <<readinessScore, currentClass>>

-----------------------------------------------------------------------------
(* Generic sequence helpers (JavaScript array methods).                    *)

\* Array.prototype.includes
Includes(s, x) == \E i \in DOMAIN s : s[i] = x

Range(s) == {s[i] : i \in DOMAIN s}

\* Array.prototype.slice(from, to) with 0-based, end-exclusive indices
Slice(s, from, to) ==
    LET hi == IF to < Len(s) THEN to ELSE Len(s)
    IN  IF from >= hi THEN <<>> ELSE SubSeq(s, from + 1, hi)

\* prev.filter(id => id !== x)
Without(s, x) == SelectSeq(s, LAMBDA e : e # x)

-----------------------------------------------------------------------------
(* Inputs.                                                                 *)

\* analysis results the upstream service can deliver; analysis = 0 is null
AnalysisData == <<
    [role |-> "Backend Developer", final_score |-> 62,
     detected_skills |-> <<"python", "git">>,
     missing_core_skills |-> <<"docker", "system design", "ci/cd">>,
     missing_optional_skills |-> <<"graphql", "aws">>],
    [role |-> "DevOps Engineer", final_score |-> 48,
     detected_skills |-> <<"python">>,
     missing_core_skills |-> <<"docker", "system design", "ci/cd", "linux">>,
     missing_optional_skills |-> <<"graphql">>],
    [role |-> "Cloud Engineer", final_score |-> 81,
     detected_skills |-> <<"git">>,
     missing_core_skills |-> <<"docker">>,
     missing_optional_skills |-> <<"graphql">>],
    [role |-> "Software Developer", final_score |-> 95,
     detected_skills |-> <<"python", "git">>,
     missing_core_skills |-> <<>>,
     missing_optional_skills |-> <<>>],
    [role |-> "Platform Engineer", final_score |-> 55,
     detected_skills |-> <<"python", "linux">>,
     missing_core_skills |-> <<"Docker", "kubernetes">>,
     missing_optional_skills |-> <<"graphql">>] >>

NoAnalysis == 0
NoPrediction == 0
NoSkill == "<none>"

\* inputs of the store specification
StoreAnalyses == {1}
StorePredictions == {1}
StoreSkills == {"docker", "linux"}
\* the skill whose StudyHub is opened
HubSkills == {"docker"}
TaskIds == {"task-docker"}
Hours == {0, 1}

\* quiz provider: a quiz is the sequence of its questions' correct_index
MaxQuestions == 2
\* option indices of a question
Options == {0, 1}
\* one quiz per length; question k has correct_index k % 2
Quizzes == {[k \in 1 .. n |-> k % 2] : n \in 1 .. MaxQuestions}
\* pending setTimeout callbacks of one StudyHub instance
MaxTimers == 2
\* an array slot that was never assigned (undefined)
Undef == -1

-----------------------------------------------------------------------------
(* Local storage.                                                          *)

\* an item is absent, holds the JSON text of a value, or holds text that
\* JSON.parse rejects (ok = FALSE)
Absent(dflt) == [has |-> FALSE, v |-> dflt, ok |-> TRUE]
Stored(val) == [has |-> TRUE, v |-> val, ok |-> TRUE]
Corrupt(dflt) == [has |-> TRUE, v |-> dflt, ok |-> FALSE]

\* JSON.parse(localStorage.getItem(key) || fallback) does not throw
Parses(item) == ~item.has \/ item.ok

\* loadJson(key): the parsed value, null when absent or not parseable
loadJson(item, null) == IF item.has /\ item.ok THEN item.v ELSE null

\* the storage of a browser that never ran the application
EmptyStorage ==
    [cse_analysis |-> Absent(0), cse_prediction |-> Absent(0),
     cse_prev_analysis |-> Absent(0), cse_mastered_skills |-> Absent(<<>>),
     cse_completed_tasks |-> Absent(<<>>), cse_daily_commitment |-> Absent(0),
     cse_score_history |-> Absent(<<>>), pinned_notes |-> Absent(<<>>)]

MAX_ENTRIES == 12

\* loadHistory: the stored list, [] when the key is absent
loadHistory(store) ==
    IF store.cse_score_history.has /\ store.cse_score_history.ok
    THEN store.cse_score_history.v ELSE <<>>

\* days of a year: the label names month and day only, so it comes back
\* after a year
YearDays == 365

\* now.toLocaleDateString('en-IN', { month: 'short', day: 'numeric' }), as
\* the day of the year
toLocaleDateString(day) == day % YearDays

\* saveScore(score, role): the history as it is written back
saveScoreNoShift(store, sc, role) ==
    LET hist == loadHistory(store)
        n == Len(hist)
        entry == [label |-> toLocaleDateString(now), value |-> sc, role |-> role]
    IN  IF n > 0 /\ hist[n].label = entry.label
        THEN [hist EXCEPT ![n] = entry]
        ELSE Append(hist, entry)

saveScore(store, sc, role) ==
    LET hist == loadHistory(store)
        n == Len(hist)
        entry == [label |-> toLocaleDateString(now), value |-> sc, role |-> role]
    IN  IF n > 0 /\ hist[n].label = entry.label
        THEN [hist EXCEPT ![n] = entry]
        ELSE IF n + 1 > MAX_ENTRIES THEN Tail(Append(hist, entry)) ELSE Append(hist, entry)

\* the days of writing that go with the history saveScore writes back: the
\* last one replaced when the list kept its length, otherwise appended, with
\* the oldest dropped when the list dropped its oldest entry
SavedAtNext(old, new) ==
    IF Len(new) = Len(old) /\ Len(old) > 0 /\ new[Len(new)].label = old[Len(old)].label
    THEN [savedAt EXCEPT ![Len(savedAt)] = now]
    ELSE IF Len(new) = Len(old) THEN Tail(Append(savedAt, now))
    ELSE Append(savedAt, now)

\* the (score, role) pairs saved: final_score and role of these analyses
HistAnalyses == {1, 2}
\* the clock is followed for MaxDay days after the first one and after the
\* same day a year later
MaxDay == 13

\* saveScore(score, role) called on its own
SaveScore(sc, role) ==
    /\ ls' = [ls EXCEPT !.cse_score_history = Stored(saveScore(ls, sc, role))]
    /\ savedAt' = SavedAtNext(loadHistory(ls), saveScore(ls, sc, role))
    /\ UNCHANGED now
    /\ UNCHANGED <<analysis, prediction, previousAnalysis, masteredSkills,
                   completedTasks, dailyCommitment>>
    /\ UNCHANGED <<hubVars, viewVars, graphVars, distVars, planVars, readyVars, gapVars, thrown>>

\* midnight passes after a day on which a score was saved
NextDay ==
    /\ now % YearDays < MaxDay
    /\ savedAt # <<>> /\ savedAt[Len(savedAt)] = now
    /\ now' = now + 1
    /\ UNCHANGED savedAt
    /\ UNCHANGED <<storeVars, hubVars, viewVars, graphVars, distVars, planVars, readyVars, gapVars,
                   thrown>>

\* a year passes without a save
NextYear ==
    /\ now < YearDays
    /\ now' = now + YearDays
    /\ UNCHANGED savedAt
    /\ UNCHANGED <<storeVars, hubVars, viewVars, graphVars, distVars, planVars, readyVars, gapVars,
                   thrown>>

-----------------------------------------------------------------------------
(* Readiness classes.                                                      *)

\* final_score is a percentage
MaxScore == 100
Scores == 0 .. MaxScore
NoScore == -1

\* getReadinessClass(score)
getReadinessClass(sc) ==
    IF sc < 40 THEN "Beginner"
    ELSE IF sc < 61 THEN "Developing"
    ELSE IF sc < 81 THEN "Placement Ready"
    ELSE "Interview Ready"

\* CLASSES of the ReadinessScore page
CLASSES == <<
    [label |-> "Beginner", min |-> 0, max |-> 40],
    [label |-> "Developing", min |-> 41, max |-> 60],
    [label |-> "Placement Ready", min |-> 61, max |-> 80],
    [label |-> "Interview Ready", min |-> 81, max |-> 100] >>

\* the classes rendered with the 'current' class name: c.label === current
Highlighted == {i \in DOMAIN CLASSES : CLASSES[i].label = currentClass}

\* ReadinessScore rendered over an analysis whose final_score is sc
RenderReadiness(sc) ==
    /\ readinessScore = NoScore
    /\ readinessScore' = sc
    /\ currentClass' = getReadinessClass(sc)
    /\ UNCHANGED <<storeVars, hubVars, viewVars, graphVars, distVars, planVars, gapVars,
                   histVars, thrown>>

\* the page is left
LeaveReadiness ==
    /\ readinessScore # NoScore
    /\ readinessScore' = NoScore
    /\ currentClass' = "none"
    /\ UNCHANGED <<storeVars, hubVars, viewVars, graphVars, distVars, planVars, gapVars,
                   histVars, thrown>>

-----------------------------------------------------------------------------
(* ResumeProvider operations.                                              *)

\* setAnalysis(a)
SetAnalysis(a) ==
    /\ previousAnalysis' = IF analysis # NoAnalysis THEN analysis ELSE previousAnalysis
    /\ analysis' = a
    /\ ls' = [ls EXCEPT
                !.cse_prev_analysis =
                    IF analysis # NoAnalysis THEN Stored(analysis) ELSE @,
                !.cse_analysis = Stored(a),
                !.cse_score_history =
                    Stored(saveScore(ls, AnalysisData[a].final_score, AnalysisData[a].role))]
    /\ savedAt' = SavedAtNext(loadHistory(ls),
                              saveScore(ls, AnalysisData[a].final_score,
                                        AnalysisData[a].role))
    /\ UNCHANGED now
    /\ UNCHANGED <<prediction, masteredSkills, completedTasks, dailyCommitment>>
    /\ UNCHANGED <<hubVars, viewVars, graphVars, distVars, planVars, readyVars, gapVars, thrown>>

\* setPrediction(p)
SetPrediction(p) ==
    /\ prediction' = p
    /\ ls' = [ls EXCEPT !.cse_prediction = Stored(p)]
    /\ UNCHANGED <<analysis, previousAnalysis, masteredSkills, completedTasks, dailyCommitment>>
    /\ UNCHANGED <<hubVars, viewVars, graphVars, distVars, planVars, readyVars, histVars, gapVars, thrown>>

\* the updater of markSkillMastered: prev.includes(skill) ? prev : [...prev, skill]
MarkToggles(prev, skill) ==
    IF Includes(prev, skill) THEN Without(prev, skill) ELSE Append(prev, skill)

MasteredNext(prev, skill) ==
    IF Includes(prev, skill) THEN prev ELSE Append(prev, skill)

\* the state change of markSkillMastered(skill), shared by the manual action
\* and by the quiz's onVerified callback
MarkSkillMasteredEffect(skill) ==
    /\ masteredSkills' = MasteredNext(masteredSkills, skill)
    /\ ls' = [ls EXCEPT !.cse_mastered_skills = Stored(MasteredNext(masteredSkills, skill))]

\* markSkillMastered(skill) called directly (manual mark)
MarkSkillMastered(skill) ==
    /\ MarkSkillMasteredEffect(skill)
    /\ UNCHANGED <<analysis, prediction, previousAnalysis, completedTasks, dailyCommitment>>
    /\ UNCHANGED <<hubVars, viewVars, graphVars, distVars, planVars, readyVars, histVars, gapVars, thrown>>

\* toggleTask(taskId)
ToggleTask(taskId) ==
    LET next == IF Includes(completedTasks, taskId)
                THEN Without(completedTasks, taskId)
                ELSE Append(completedTasks, taskId)
    IN  /\ completedTasks' = next
        /\ ls' = [ls EXCEPT !.cse_completed_tasks = Stored(next)]
        /\ UNCHANGED <<analysis, prediction, previousAnalysis, masteredSkills, dailyCommitment>>
        /\ UNCHANGED <<hubVars, viewVars, graphVars, distVars, planVars, readyVars, histVars, gapVars, thrown>>

\* setDailyCommitment(hours)
SetDailyCommitment(hours) ==
    /\ dailyCommitment' = hours
    /\ ls' = [ls EXCEPT !.cse_daily_commitment = Stored(hours)]
    /\ UNCHANGED <<analysis, prediction, previousAnalysis, masteredSkills, completedTasks>>
    /\ UNCHANGED <<hubVars, viewVars, graphVars, distVars, planVars, readyVars, histVars, gapVars, thrown>>

\* clear()
Clear ==
    /\ analysis' = NoAnalysis
    /\ prediction' = NoPrediction
    /\ previousAnalysis' = NoAnalysis
    /\ masteredSkills' = <<>>
    /\ completedTasks' = <<>>
    /\ dailyCommitment' = 2
    /\ ls' = [ls EXCEPT
                !.cse_analysis = Absent(0), !.cse_prediction = Absent(0),
                !.cse_prev_analysis = Absent(0), !.cse_mastered_skills = Absent(<<>>),
                !.cse_completed_tasks = Absent(<<>>), !.cse_daily_commitment = Absent(0)]
    /\ UNCHANGED <<hubVars, viewVars, graphVars, distVars, planVars, readyVars, histVars, gapVars, thrown>>

-----------------------------------------------------------------------------
(* StudyHub: the quiz of one skill.                                        *)

\* newAns = [...answers]; newAns[i] = idx, with 0-based i: the array grows to
\* i + 1 slots and the slots never assigned stay undefined
SetAt(arr, i, idx) ==
    [k \in 1 .. (IF Len(arr) > i + 1 THEN Len(arr) ELSE i + 1) |->
        IF k = i + 1 THEN idx ELSE IF k <= Len(arr) THEN arr[k] ELSE Undef]

\* newAns.filter((a, i) => a === quiz.questions[i].correct_index).length
\* (evaluated only while every index of newAns is a question of the quiz)
CorrectCount(newAns, qz) ==
    Cardinality({k \in DOMAIN newAns : k \in DOMAIN qz /\ newAns[k] = qz[k]})

\* the quiz pane shows a question with its option buttons
QuestionShown ==
    /\ selectedSkill # NoSkill
    /\ ~quizFinished
    /\ currentQ < Len(quiz)

\* correct === quiz.questions.length
PassesAtLeastOne(correct, n) == correct >= 1

QuizPassed(correct, n) == correct = n

\* ProgressTracking: setSelectedSkill(s) mounts a StudyHub for s; its effect
\* reads pinned_notes and loads the quiz
OpenStudyHub(s, qz) ==
    /\ thrown # "effect"
    /\ selectedSkill = NoSkill
    /\ IF Parses(ls.pinned_notes)
       THEN /\ selectedSkill' = s
            /\ quiz' = qz
            /\ currentQ' = 0
            /\ answers' = <<>>
            /\ quizFinished' = FALSE
            /\ score' = 0
            /\ timers' = 0
            /\ isPinned' = (ls.pinned_notes.has /\ Includes(ls.pinned_notes.v, s))
            /\ UNCHANGED thrown
       ELSE \* JSON.parse throws in the mount effect: nothing catches it
            /\ thrown' = "effect"
            /\ UNCHANGED hubVars
    /\ UNCHANGED storeVars
    /\ UNCHANGED <<viewVars, graphVars, distVars, planVars, readyVars, histVars, gapVars>>

\* onClose: setSelectedSkill(null) unmounts the StudyHub; its state is dropped
\* and its pending timers no longer have a component to update
CloseStudyHub ==
    /\ selectedSkill # NoSkill
    /\ selectedSkill' = NoSkill
    /\ quiz' = <<>>
    /\ currentQ' = 0
    /\ answers' = <<>>
    /\ quizFinished' = FALSE
    /\ score' = 0
    /\ timers' = 0
    /\ isPinned' = FALSE
    /\ UNCHANGED storeVars
    /\ UNCHANGED <<viewVars, graphVars, distVars, planVars, readyVars, histVars, gapVars, thrown>>

\* handleAnswer(idx)
HandleAnswer(idx) ==
    /\ QuestionShown
    /\ LET newAns == SetAt(answers, currentQ, idx)
           correct == CorrectCount(newAns, quiz)
       IN  /\ answers' = newAns
           /\ IF currentQ < Len(quiz) - 1
              THEN /\ timers < MaxTimers
                   /\ timers' = timers + 1
                   /\ UNCHANGED <<score, quizFinished>>
                   /\ UNCHANGED storeVars
              ELSE /\ score' = correct
                   /\ quizFinished' = TRUE
                   /\ timers' = timers
                   /\ IF QuizPassed(correct, Len(quiz))
                      THEN /\ MarkSkillMasteredEffect(selectedSkill)
                           /\ UNCHANGED <<analysis, prediction, previousAnalysis,
                                          completedTasks, dailyCommitment>>
                      ELSE UNCHANGED storeVars
    /\ UNCHANGED <<selectedSkill, quiz, currentQ, isPinned>>
    /\ UNCHANGED <<viewVars, graphVars, distVars, planVars, readyVars, histVars, gapVars, thrown>>

\* a 600 ms timer of handleAnswer fires: setCurrentQ(v => v + 1)
AdvanceTimer ==
    /\ selectedSkill # NoSkill
    /\ timers > 0
    /\ timers' = timers - 1
    /\ currentQ' = currentQ + 1
    /\ UNCHANGED <<selectedSkill, quiz, answers, quizFinished, score, isPinned>>
    /\ UNCHANGED storeVars
    /\ UNCHANGED <<viewVars, graphVars, distVars, planVars, readyVars, histVars, gapVars, thrown>>

\* Retry Quiz, offered on the result box of a quiz that was not passed
RetryQuiz ==
    /\ selectedSkill # NoSkill
    /\ quizFinished
    /\ score # Len(quiz)
    /\ quizFinished' = FALSE
    /\ currentQ' = 0
    /\ answers' = <<>>
    /\ UNCHANGED <<selectedSkill, quiz, score, timers, isPinned>>
    /\ UNCHANGED storeVars
    /\ UNCHANGED <<viewVars, graphVars, distVars, planVars, readyVars, histVars, gapVars, thrown>>

\* togglePin
TogglePin ==
    /\ thrown # "effect"
    /\ selectedSkill # NoSkill
    /\ IF Parses(ls.pinned_notes)
       THEN /\ LET pinned == IF ls.pinned_notes.has THEN ls.pinned_notes.v ELSE <<>>
                   next == IF isPinned THEN Without(pinned, selectedSkill)
                           ELSE Append(pinned, selectedSkill)
               IN  ls' = [ls EXCEPT !.pinned_notes = Stored(next)]
            /\ isPinned' = ~isPinned
            /\ UNCHANGED thrown
       ELSE \* JSON.parse throws in the click handler before anything is written
            /\ thrown' = "handler"
            /\ UNCHANGED <<ls, isPinned>>
    /\ UNCHANGED <<analysis, prediction, previousAnalysis, masteredSkills,
                   completedTasks, dailyCommitment>>
    /\ UNCHANGED <<selectedSkill, quiz, currentQ, answers, quizFinished, score, timers>>
    /\ UNCHANGED <<viewVars, graphVars, distVars, planVars, readyVars, histVars, gapVars>>

-----------------------------------------------------------------------------
(* Reloading the page over whatever the local storage holds.               *)

\* loadJson(LS_KEY_DAILY_COMMITMENT) || 2
LoadDailyCommitment(store) ==
    IF loadJson(store.cse_daily_commitment, 0) = 0
    THEN 2 ELSE loadJson(store.cse_daily_commitment, 0)

\* the page is reloaded: ResumeProvider takes its state from the storage and
\* no StudyHub is open
Reload ==
    /\ analysis' = loadJson(ls.cse_analysis, NoAnalysis)
    /\ prediction' = loadJson(ls.cse_prediction, NoPrediction)
    /\ previousAnalysis' = loadJson(ls.cse_prev_analysis, NoAnalysis)
    /\ masteredSkills' = loadJson(ls.cse_mastered_skills, <<>>)
    /\ completedTasks' = loadJson(ls.cse_completed_tasks, <<>>)
    /\ dailyCommitment' = LoadDailyCommitment(ls)
    /\ selectedSkill' = NoSkill
    /\ quiz' = <<>>
    /\ currentQ' = 0
    /\ answers' = <<>>
    /\ quizFinished' = FALSE
    /\ score' = 0
    /\ timers' = 0
    /\ isPinned' = FALSE
    /\ thrown' = "none"
    /\ UNCHANGED <<ls, viewVars, graphVars, distVars, planVars, readyVars, histVars, gapVars>>

\* the keys whose values are lists or the daily commitment
PersistedKeys ==
    {"cse_mastered_skills", "cse_completed_tasks", "cse_daily_commitment", "pinned_notes"}

\* the item under a key is overwritten from outside with text that is not JSON
CorruptKey(key) ==
    /\ ls' = [ls EXCEPT ![key] = Corrupt(IF key = "cse_daily_commitment" THEN 0 ELSE <<>>)]
    /\ UNCHANGED <<analysis, prediction, previousAnalysis, masteredSkills,
                   completedTasks, dailyCommitment>>
    /\ UNCHANGED <<hubVars, viewVars, graphVars, distVars, planVars, readyVars, histVars, gapVars, thrown>>

\* the store's operations while the application is up
LiveMarkSkillMastered(skill) == thrown # "effect" /\ MarkSkillMastered(skill)
LiveToggleTask(taskId) == thrown # "effect" /\ ToggleTask(taskId)
LiveSetDailyCommitment(hours) == thrown # "effect" /\ SetDailyCommitment(hours)

NextLoad ==
    \/ \E s \in HubSkills : LiveMarkSkillMastered(s)
    \/ \E t \in TaskIds : LiveToggleTask(t)
    \/ \E h \in Hours : LiveSetDailyCommitment(h)
    \/ \E s \in HubSkills, qz \in Quizzes : OpenStudyHub(s, qz)
    \/ TogglePin
    \/ \E k \in PersistedKeys : CorruptKey(k)
    \/ Reload

-----------------------------------------------------------------------------
(* SkillGraphViz: nodes and edges.  A node keeps its polar placement       *)
(* (ring radius and angle in degrees as the fraction num/den) from which   *)
(* polar() computes x and y around the canvas centre.                      *)

CenterNode ==
    [id |-> "you", label |-> "You", type |-> "center", radius |-> 0,
     angle |-> [num |-> 0, den |-> 1], r |-> 28]

\* the nodes of one ring: skills.forEach((s, i) => nodes.push(...)) with
\* angle offset + (i / max(skills.length, 1)) * 360
RingNodes(skills, type, radius, offset, r) ==
    [k \in DOMAIN skills |->
        [id |-> skills[k], label |-> skills[k], type |-> type, radius |-> radius,
         angle |-> [num |-> offset * Len(skills) + (k - 1) * 360, den |-> Len(skills)],
         r |-> r]]

\* the retained skills of each ring
InnerUncapped(detected) == detected

InnerSkills(detected) == Slice(detected, 0, 10)
CoreMissing(missingCore) == Slice(missingCore, 0, 6)
OptMissing(missingOptional) == Slice(missingOptional, 0, 5)

\* Build nodes
buildNodes(detected, missingCore, missingOptional) ==
    LET inner == InnerSkills(detected)
    IN  <<CenterNode>>
        \o RingNodes(inner, "detected", 145, 0, 17)
        \o RingNodes(CoreMissing(missingCore), "missing-core", 235,
                     IF Len(inner) > 0 THEN 10 ELSE 0, 14)
        \o RingNodes(OptMissing(missingOptional), "missing-optional", 310, 20, 12)

\* allSkillIds = new Set(nodes.map(n => n.id))
AllSkillIds(nodes) == {nodes[k].id : k \in DOMAIN nodes}

\* prereqs.forEach(p => { if (allSkillIds.has(p)) edges.push(needs p -> skill) })
NeedsUnchecked(skill, prereqs, ids) ==
    [k \in DOMAIN prereqs |-> [from |-> prereqs[k], to |-> skill, type |-> "needs"]]

NeedsOf(skill, prereqs, ids) ==
    LET kept == SelectSeq(prereqs, LAMBDA p : p \in ids)
    IN  [k \in DOMAIN kept |-> [from |-> kept[k], to |-> skill, type |-> "needs"]]

\* Object.entries(dependencies).forEach(([skill, prereqs]) => ...): the map is
\* the sequence of its entries in key order
RECURSIVE NeedsEdgesNoSelf(_, _)
NeedsEdgesNoSelf(entries, ids) ==
    IF entries = <<>> THEN <<>>
    ELSE (IF Head(entries).skill \in ids
          THEN SelectSeq(NeedsOf(Head(entries).skill, Head(entries).prereqs, ids),
                         LAMBDA e : e.from # e.to)
          ELSE <<>>)
         \o NeedsEdgesNoSelf(Tail(entries), ids)

RECURSIVE NeedsEdges(_, _)
NeedsEdges(entries, ids) ==
    IF entries = <<>> THEN <<>>
    ELSE (IF Head(entries).skill \in ids
          THEN NeedsOf(Head(entries).skill, Head(entries).prereqs, ids)
          ELSE <<>>)
         \o NeedsEdges(Tail(entries), ids)

\* Build edges
buildEdges(nodes, detected, dependencies) ==
    LET inner == InnerSkills(detected)
    IN  [k \in DOMAIN inner |-> [from |-> "you", to |-> inner[k], type |-> "has"]]
        \o NeedsEdges(dependencies, AllSkillIds(nodes))

\* SkillGraphViz mounted with props p: the memoised nodes and edges are built
RenderGraph(p) ==
    /\ gNodes = <<>>
    /\ gProps' = p
    /\ gNodes' = buildNodes(p.detected, p.missingCore, p.missingOptional)
    /\ gEdges' = buildEdges(buildNodes(p.detected, p.missingCore, p.missingOptional),
                            p.detected, p.dependencies)
    /\ UNCHANGED <<storeVars, hubVars, viewVars, distVars, planVars, readyVars, histVars, gapVars, thrown>>

\* SkillGraphViz unmounted
UnmountGraph ==
    /\ gNodes # <<>>
    /\ gProps' = [detected |-> <<>>, missingCore |-> <<>>, missingOptional |-> <<>>,
                  dependencies |-> <<>>]
    /\ gNodes' = <<>>
    /\ gEdges' = <<>>
    /\ UNCHANGED <<storeVars, hubVars, viewVars, distVars, planVars, readyVars, histVars, gapVars, thrown>>

\* skill lists handed to the graph; the long one passes every display cap and
\* has "linux" as its seventh name
LongList == <<"kubernetes", "docker", "git", "sql", "react", "python", "linux",
              "aws", "redis", "api", "dsa">>
SkillLists ==
    {<<>>, <<"docker">>, <<"kubernetes">>, <<"docker", "linux">>, LongList}

\* prerequisite maps: each key is absent or has one of these lists
DepKeys == <<"kubernetes", "docker", "linux">>
PrereqLists ==
    {<<>>, <<"docker", "linux">>, <<"kubernetes">>, <<"linux", "linux">>}
NoEntry == <<"<absent>">>
RECURSIVE EntriesOf(_, _)
EntriesOf(f, k) ==
    IF k > Len(DepKeys) THEN <<>>
    ELSE (IF f[k] = NoEntry THEN <<>>
          ELSE <<[skill |-> DepKeys[k], prereqs |-> f[k]]>>)
         \o EntriesOf(f, k + 1)
DepMaps == {EntriesOf(f, 1) : f \in [DOMAIN DepKeys -> PrereqLists \cup {NoEntry}]}

GraphInputs ==
    [detected : SkillLists, missingCore : SkillLists, missingOptional : SkillLists,
     dependencies : DepMaps]

-----------------------------------------------------------------------------
(* SkillGraphViz viewport.  Scales are held in units of 1/10000, so that   *)
(* 0.85 is 8500 and zoomSpeed 0.0015 is 15 per unit of deltaY.             *)

DefaultScale == 8500
MinScale == 3500
MaxScale == 30000
ZoomSpeed == 15

\* deltaY of a wheel event: single notches, and flings large enough to pass
\* either end of the range from anywhere in it
WheelDeltas == {-2000, -100, 100, 2000}
\* pointer coordinates over the canvas
MaxCoord == 1
Coords == 0 .. MaxCoord
\* the translate is followed while it stays within MaxPan pixels of the origin
MaxPan == 2
\* MouseEvent.button: 0 primary, 1 auxiliary, 2 secondary
Buttons == {0, 1, 2}

Min2(a, b) == IF a < b THEN a ELSE b
Max2(a, b) == IF a > b THEN a ELSE b

\* Math.min(Math.max(s, 0.35), 3)
ClampLowOnly(s) == Max2(s, MinScale)

ClampScale(s) == Min2(Max2(s, MinScale), MaxScale)

\* the component is mounted: the nodes always hold at least the centre
GraphMounted == gNodes # <<>>

\* the render that follows a state update: nodes and edges are built again
\* from the props
RerenderGraph ==
    /\ gNodes' = buildNodes(gProps.detected, gProps.missingCore, gProps.missingOptional)
    /\ gEdges' = buildEdges(buildNodes(gProps.detected, gProps.missingCore,
                                       gProps.missingOptional),
                            gProps.detected, gProps.dependencies)
    /\ UNCHANGED gProps

\* the props the viewport is exercised over
ViewGraphInputs ==
    {[detected |-> <<"docker", "linux">>, missingCore |-> <<"kubernetes">>,
      missingOptional |-> <<"graphql">>,
      dependencies |-> <<[skill |-> "kubernetes", prereqs |-> <<"docker", "linux">>]>>]}

\* SkillGraphViz mounted with props p: default view, no drag, first render
MountGraph(p) ==
    /\ ~GraphMounted
    /\ gProps' = p
    /\ gNodes' = buildNodes(p.detected, p.missingCore, p.missingOptional)
    /\ gEdges' = buildEdges(buildNodes(p.detected, p.missingCore, p.missingOptional),
                            p.detected, p.dependencies)
    /\ view' = [x |-> 0, y |-> 0, scale |-> DefaultScale]
    /\ isDragging' = FALSE
    /\ prevPos' = [x |-> 0, y |-> 0]
    /\ dragReach' = [x |-> 0, y |-> 0]
    /\ viewReset' = "no"
    /\ UNCHANGED <<storeVars, hubVars, distVars, planVars, readyVars, histVars, gapVars, thrown>>

\* handleWheelNative(e): zoom that also recentres the translate
WheelRecentring(deltaY) ==
    /\ GraphMounted
    /\ view' = [x |-> 0, y |-> 0, scale |-> ClampScale(view.scale - deltaY * ZoomSpeed)]
    /\ viewReset' = IF view' = view THEN viewReset ELSE "no"
    /\ UNCHANGED <<isDragging, prevPos, dragReach>>
    /\ RerenderGraph
    /\ UNCHANGED <<storeVars, hubVars, distVars, planVars, readyVars, histVars, gapVars, thrown>>

\* handleWheelNative(e)
Wheel(deltaY) ==
    /\ GraphMounted
    /\ view' = [view EXCEPT !.scale = ClampScale(view.scale - deltaY * ZoomSpeed)]
    /\ viewReset' = IF view' = view THEN viewReset ELSE "no"
    /\ UNCHANGED <<isDragging, prevPos, dragReach>>
    /\ RerenderGraph
    /\ UNCHANGED <<storeVars, hubVars, distVars, planVars, readyVars, histVars, gapVars, thrown>>

\* handleMouseDown(e)
MouseDown(button, cx, cy) ==
    /\ GraphMounted
    /\ IF button # 0
       THEN UNCHANGED <<isDragging, prevPos, dragReach>>
       ELSE /\ isDragging' = TRUE
            /\ prevPos' = [x |-> cx, y |-> cy]
            /\ dragReach' = [x |-> cx, y |-> cy]
    /\ UNCHANGED <<view, viewReset>>
    /\ RerenderGraph
    /\ UNCHANGED <<storeVars, hubVars, distVars, planVars, readyVars, histVars, gapVars, thrown>>

\* dx = e.clientX - prevPos.current.x, and dy alike
PointerFromOrigin(client, prev) == client

PointerDelta(client, prev) == client - prev

\* handleMouseMove(e)
MouseMove(cx, cy) ==
    /\ GraphMounted
    /\ IF ~isDragging
       THEN UNCHANGED <<view, prevPos, dragReach, viewReset>>
       ELSE /\ view' = [view EXCEPT !.x = @ + PointerDelta(cx, prevPos.x),
                                    !.y = @ + PointerDelta(cy, prevPos.y)]
            /\ prevPos' = [x |-> cx, y |-> cy]
            /\ dragReach' = [x |-> dragReach.x + (view'.x - view.x),
                             y |-> dragReach.y + (view'.y - view.y)]
            /\ viewReset' = IF view' = view THEN viewReset ELSE "no"
            /\ view'.x \in -MaxPan .. MaxPan
            /\ view'.y \in -MaxPan .. MaxPan
    /\ UNCHANGED isDragging
    /\ RerenderGraph
    /\ UNCHANGED <<storeVars, hubVars, distVars, planVars, readyVars, histVars, gapVars, thrown>>

\* handleMouseUp, bound to onMouseUp and onMouseLeave
MouseUp ==
    /\ GraphMounted
    /\ isDragging' = FALSE
    /\ UNCHANGED <<view, prevPos, dragReach, viewReset>>
    /\ RerenderGraph
    /\ UNCHANGED <<storeVars, hubVars, distVars, planVars, readyVars, histVars, gapVars, thrown>>

\* setView({ x: 0, y: 0, scale: 0.85 })
ResetToUnitScale == [x |-> 0, y |-> 0, scale |-> 10000]

ResetTarget == [x |-> 0, y |-> 0, scale |-> DefaultScale]

\* Reset View button
ResetView ==
    /\ GraphMounted
    /\ view' = ResetTarget
    /\ viewReset' = IF view # view' THEN "once"
                    ELSE IF viewReset = "no" THEN "no" ELSE "again"
    /\ UNCHANGED <<isDragging, prevPos, dragReach>>
    /\ RerenderGraph
    /\ UNCHANGED <<storeVars, hubVars, distVars, planVars, readyVars, histVars, gapVars, thrown>>

-----------------------------------------------------------------------------
(* The SkillGap page: the dependencies fetch and what a render derives     *)
(* from the store and the deps state.                                      *)

\* a parsed JSON body: an object (the sequence of its entries; an entry whose
\* value is not an array has list = FALSE) or null
MapBody(entries) == [form |-> "map", entries |-> entries]
NullBody == [form |-> "null", entries |-> <<>>]
DepEntry(skill, prereqs) == [skill |-> skill, prereqs |-> prereqs, list |-> TRUE]
NotAList(skill) == [skill |-> skill, prereqs |-> <<>>, list |-> FALSE]

\* useState<Record<string, string[]>>({})
EmptyDeps == MapBody(<<>>)

\* what the dependencies endpoint can answer: the request fails, the body is
\* not JSON, or the body parses to one of these values
JsonBodies ==
    {MapBody(<<DepEntry("kubernetes", <<"Docker", "linux">>)>>),
     MapBody(<<DepEntry("docker", <<"linux">>)>>),
     MapBody(<<NotAList("kubernetes")>>),
     MapBody(<<NotAList("detail")>>),
     NullBody}
Responses ==
    {[kind |-> "failed", body |-> EmptyDeps], [kind |-> "not json", body |-> EmptyDeps]}
        \cup {[kind |-> "json", body |-> b] : b \in JsonBodies}

\* String.prototype.toLowerCase over the names of the model
toLowerCase(s) ==
    CASE s = "Docker" -> "docker"
      [] s = "Python" -> "python"
      [] OTHER -> s

\* how often the page is mounted
MaxMounts == 2

\* the lists of the analysis, empty while there is none
GapField(list) == IF analysis = NoAnalysis THEN <<>> ELSE list
\* includes without and with case folding
NotMasteredFolded(skill) ==
    \A k \in DOMAIN masteredSkills : toLowerCase(masteredSkills[k]) # toLowerCase(skill)

NotMastered(skill) == ~Includes(masteredSkills, skill)

\* coreMissing, optMissing and detected of a render
coreMissing ==
    SelectSeq(GapField(AnalysisData[analysis].missing_core_skills), NotMastered)
optMissing ==
    SelectSeq(GapField(AnalysisData[analysis].missing_optional_skills), NotMastered)
GapDetected == GapField(AnalysisData[analysis].detected_skills) \o masteredSkills

\* the gap list of a render
gaps ==
    IF analysis = NoAnalysis THEN <<>>
    ELSE [k \in DOMAIN coreMissing |->
             [skill |-> coreMissing[k], priority |-> "Critical"]]
         \o [k \in DOMAIN optMissing |->
                [skill |-> optMissing[k],
                 priority |-> IF k - 1 < 2 THEN "High" ELSE "Medium"]]

\* the nodes SkillGraphViz builds for the props of a render
GapNodes == buildNodes(GapDetected, coreMissing, optMissing)

\* building the edges throws: Object.entries(null), or forEach of a value that
\* is not an array under a key that is a node
EdgesThrow ==
    \/ deps.form = "null"
    \/ \E k \in DOMAIN deps.entries :
          deps.entries[k].skill \in AllSkillIds(GapNodes) /\ ~deps.entries[k].list

\* getPrereqs throws for a gap: deps[...] of null, or map of a non-array value
GapListThrows ==
    \E g \in DOMAIN gaps :
        \/ deps.form = "null"
        \/ \E k \in DOMAIN deps.entries :
              deps.entries[k].skill = toLowerCase(gaps[g].skill) /\ ~deps.entries[k].list

\* a render of the mounted page throws
RenderThrows == gapMounted /\ ((showGraph /\ EdgesThrow) \/ GapListThrows)

\* the edges SkillGraphViz builds for the props of a render that does not throw
GapEdges ==
    IF EdgesThrow THEN <<>>
    ELSE buildEdges(GapNodes, GapDetected,
                    [k \in DOMAIN deps.entries |->
                        [skill |-> deps.entries[k].skill,
                         prereqs |-> deps.entries[k].prereqs]])

\* the page is mounted: fresh state, the effect starts the fetch
MountGap ==
    /\ ~RenderThrows
    /\ ~gapMounted
    /\ gapInstance < MaxMounts
    /\ gapMounted' = TRUE
    /\ gapInstance' = gapInstance + 1
    /\ inFlight' = inFlight \cup {gapInstance + 1}
    /\ deps' = EmptyDeps
    /\ showGraph' = TRUE
    /\ UNCHANGED <<staleSetDeps, storeVars, hubVars, viewVars, graphVars, distVars, planVars, readyVars, histVars,
                   thrown>>

\* the page is torn down: its state is gone, its fetch stays in flight
UnmountGap ==
    /\ ~RenderThrows
    /\ gapMounted
    /\ gapMounted' = FALSE
    /\ deps' = EmptyDeps
    /\ showGraph' = TRUE
    /\ UNCHANGED <<gapInstance, inFlight, staleSetDeps,
                   storeVars, hubVars, viewVars, graphVars, distVars, planVars, readyVars, histVars, thrown>>

\* setDeps(d): the value the deps state takes
ApplyDeps(current, body) == body

\* the fetch of instance i settles with response r: .then(r => r.json())
\* .then(d => setDeps(d)).catch(() => { }); a state update of an instance that
\* is no longer mounted is dropped by React
FetchSettles(i, r) ==
    /\ ~RenderThrows
    /\ i \in inFlight
    /\ inFlight' = inFlight \ {i}
    /\ IF r.kind # "json"
       THEN UNCHANGED <<deps, staleSetDeps>>
       ELSE IF gapMounted /\ i = gapInstance
            THEN deps' = ApplyDeps(deps, r.body) /\ UNCHANGED staleSetDeps
            ELSE staleSetDeps' = TRUE /\ UNCHANGED deps
    /\ UNCHANGED <<gapMounted, gapInstance, showGraph,
                   storeVars, hubVars, viewVars, graphVars, distVars, planVars, readyVars, histVars, thrown>>

\* Hide Graph / Show Graph
ToggleGraph ==
    /\ ~RenderThrows
    /\ gapMounted
    /\ showGraph' = ~showGraph
    /\ UNCHANGED <<gapMounted, gapInstance, inFlight, deps, staleSetDeps,
                   storeVars, hubVars, viewVars, graphVars, distVars, planVars, readyVars, histVars, thrown>>

GapAnalyses == {5}
GapSkills == {"python", "docker", "kubernetes"}

\* the store's operations while no render has thrown
GapSetAnalysis(a) == ~RenderThrows /\ SetAnalysis(a)
GapMarkSkillMastered(skill) == ~RenderThrows /\ MarkSkillMastered(skill)
GapClear == ~RenderThrows /\ Clear

-----------------------------------------------------------------------------
(* The store with the quiz.                                                *)

vars == <<storeVars, hubVars, viewVars, graphVars, distVars, planVars, gapVars, histVars,
          readyVars, thrown>>

\* ResumeProvider mounted over an empty local storage, no StudyHub open
StoreInit ==
    /\ analysis = NoAnalysis
    /\ prediction = NoPrediction
    /\ previousAnalysis = NoAnalysis
    /\ masteredSkills = <<>>
    /\ completedTasks = <<>>
    /\ dailyCommitment = 2
    /\ ls = EmptyStorage

HubInit ==
    /\ selectedSkill = NoSkill
    /\ quiz = <<>>
    /\ currentQ = 0
    /\ answers = <<>>
    /\ quizFinished = FALSE
    /\ score = 0
    /\ timers = 0
    /\ isPinned = FALSE

\* the graph component freshly mounted: default view, no drag in progress
ViewInit ==
    /\ view = [x |-> 0, y |-> 0, scale |-> DefaultScale]
    /\ isDragging = FALSE
    /\ prevPos = [x |-> 0, y |-> 0]
    /\ dragReach = [x |-> 0, y |-> 0]
    /\ viewReset = "no"

\* no graph has been rendered
GraphIdle ==
    /\ gProps = [detected |-> <<>>, missingCore |-> <<>>, missingOptional |-> <<>>,
                 dependencies |-> <<>>]
    /\ gNodes = <<>>
    /\ gEdges = <<>>

\* nothing has been scheduled
DistIdle ==
    /\ dTasks = <<>>
    /\ dailyMinutes = 120
    /\ buckets = <<>>
    /\ distributed = FALSE

\* the SkillGap page is not mounted
GapIdle ==
    /\ gapMounted = FALSE
    /\ gapInstance = 0
    /\ inFlight = {}
    /\ deps = EmptyDeps
    /\ showGraph = TRUE
    /\ staleSetDeps = FALSE

\* no plan has been built
PlanIdle ==
    /\ pCore = <<>>
    /\ pOptional = <<>>
    /\ plan = <<>>

\* the ReadinessScore page is not shown
ReadyIdle ==
    /\ readinessScore = NoScore
    /\ currentClass = "none"

\* the first day, nothing saved yet
HistInit ==
    /\ now = 0
    /\ savedAt = <<>>

Init ==
    /\ StoreInit
    /\ HistInit
    /\ ReadyIdle
    /\ HubInit
    /\ ViewInit
    /\ GraphIdle
    /\ DistIdle
    /\ PlanIdle
    /\ GapIdle
    /\ thrown = "none"

Next ==
    \/ \E a \in StoreAnalyses : SetAnalysis(a)
    \/ \E p \in StorePredictions : SetPrediction(p)
    \/ \E s \in StoreSkills : MarkSkillMastered(s)
    \/ \E t \in TaskIds : ToggleTask(t)
    \/ \E h \in Hours : SetDailyCommitment(h)
    \/ Clear
    \/ \E s \in HubSkills, qz \in Quizzes : OpenStudyHub(s, qz)
    \/ CloseStudyHub
    \/ \E idx \in Options : HandleAnswer(idx)
    \/ AdvanceTimer
    \/ RetryQuiz
    \/ TogglePin

Spec == Init /\ [][Next]_vars

NextView ==
    \/ \E p \in ViewGraphInputs : MountGraph(p)
    \/ \E d \in WheelDeltas : Wheel(d)
    \/ \E b \in Buttons, cx \in Coords, cy \in Coords : MouseDown(b, cx, cy)
    \/ \E cx \in Coords, cy \in Coords : MouseMove(cx, cy)
    \/ MouseUp
    \/ ResetView

SpecView == Init /\ [][NextView]_vars

NextGraph ==
    \/ \E p \in GraphInputs : RenderGraph(p)
    \/ UnmountGraph

SpecGraph == Init /\ [][NextGraph]_vars

\* the SkillGap page over the store; after a render has thrown nothing runs
NextGap ==
    \/ MountGap
    \/ UnmountGap
    \/ \E i \in 1 .. MaxMounts, r \in Responses : FetchSettles(i, r)
    \/ ToggleGraph
    \/ \E a \in GapAnalyses : GapSetAnalysis(a)
    \/ \E s \in GapSkills : GapMarkSkillMastered(s)
    \/ GapClear

SpecGap == Init /\ [][NextGap]_vars

SpecLoad == Init /\ [][NextLoad]_vars

\* the ReadinessScore page over every score
NextReady ==
    \/ \E sc \in Scores : RenderReadiness(sc)
    \/ LeaveReadiness

SpecReady == Init /\ [][NextReady]_vars

\* the score history over the days
NextHist ==
    \/ \E a \in HistAnalyses :
          SaveScore(AnalysisData[a].final_score, AnalysisData[a].role)
    \/ NextDay
    \/ NextYear

SpecHist == Init /\ [][NextHist]_vars

-----------------------------------------------------------------------------
(* ImprovementPlan: buildPlan.                                             *)

\* the lists ImprovementPlan shows while there is no analysis
DemoRole == "Software Developer"
DemoMissingCore == <<"System Design", "Docker", "DSA", "CI/CD", "TypeScript">>
DemoMissingOptional == <<"React", "AWS">>

\* role, missingCore and missingOpt as ImprovementPlan derives them
PlanRole(a) == IF a = NoAnalysis THEN DemoRole ELSE AnalysisData[a].role
PlanMissingCore(a) ==
    IF a = NoAnalysis THEN DemoMissingCore ELSE AnalysisData[a].missing_core_skills
PlanMissingOptional(a) ==
    IF a = NoAnalysis THEN DemoMissingOptional ELSE AnalysisData[a].missing_optional_skills

\* the skills each tier is generated from
FirstTwoSkills(missingCore) == Slice(missingCore, 0, 2)

CriticalSkills(missingCore) == Slice(missingCore, 0, 3)

SkillsFromFifth(missingCore) == Slice(missingCore, 4, 5)

HighSkills(missingCore) == Slice(missingCore, 3, 5)

AllOptionalSkills(missingOptional) == missingOptional

MediumSkills(missingOptional) == Slice(missingOptional, 0, 2)

\* addItem(skill, priority, days) with the running day counter: the item pushed
PlanItemSixty(skill, priority, days, day) ==
    [dayFrom |-> day, dayTo |-> day + days - 1, skill |-> skill,
     priority |-> priority,
     duration |-> [from |-> days * 60, to |-> days * 60, unit |-> "min est."]]

PlanItemOneDay(skill, priority, days, day) ==
    [dayFrom |-> day, dayTo |-> day, skill |-> skill,
     priority |-> priority,
     duration |-> [from |-> days * 90, to |-> days * 90, unit |-> "min est."]]

PlanItemFlat(skill, priority, days, day) ==
    [dayFrom |-> day, dayTo |-> day + days - 1, skill |-> skill,
     priority |-> priority,
     duration |-> [from |-> 90, to |-> 90, unit |-> "min est."]]

PlanItem(skill, priority, days, day) ==
    [dayFrom |-> day, dayTo |-> day + days - 1, skill |-> skill,
     priority |-> priority,
     duration |-> [from |-> days * 90, to |-> days * 90, unit |-> "min est."]]

\* skills.forEach(s => addItem(s, priority, days)) appended to items
RECURSIVE AddItems(_, _, _, _)
AddItems(items, skills, priority, days) ==
    IF skills = <<>> THEN items
    ELSE LET day == IF items = <<>> THEN 1 ELSE items[Len(items)].dayTo + 1
         IN  AddItems(Append(items, PlanItem(Head(skills), priority, days, day)),
                      Tail(skills), priority, days)

\* the final integration-project item
ProjectItem(day) ==
    [dayFrom |-> day, dayTo |-> day, skill |-> "project", priority |-> "High",
     duration |-> [from |-> 3, to |-> 4, unit |-> "hr"]]

\* the items addItem pushed, in order
SkillItems(missingCore, missingOptional) ==
    AddItems(AddItems(AddItems(<<>>, CriticalSkills(missingCore), "Critical", 2),
                      HighSkills(missingCore), "High", 1),
             MediumSkills(missingOptional), "Medium", 1)

\* buildPlan(missingCore, missingOptional, role)
buildPlanSkillsOnly(missingCore, missingOptional) ==
    SkillItems(missingCore, missingOptional)

buildPlan(missingCore, missingOptional) ==
    LET items == SkillItems(missingCore, missingOptional)
        day == IF items = <<>> THEN 1 ELSE items[Len(items)].dayTo + 1
    IN  Append(items, ProjectItem(day))

\* ImprovementPlan rendered over an analysis with these missing-skill lists
RenderPlan(missingCore, missingOptional) ==
    /\ plan = <<>>
    /\ pCore' = missingCore
    /\ pOptional' = missingOptional
    /\ plan' = buildPlan(missingCore, missingOptional)
    /\ UNCHANGED <<storeVars, hubVars, viewVars, graphVars, distVars, readyVars, histVars, gapVars, thrown>>

\* ImprovementPlan rendered while there is no analysis
RenderDemoPlan ==
    /\ plan = <<>>
    /\ pCore' = PlanMissingCore(NoAnalysis)
    /\ pOptional' = PlanMissingOptional(NoAnalysis)
    /\ plan' = buildPlan(PlanMissingCore(NoAnalysis), PlanMissingOptional(NoAnalysis))
    /\ UNCHANGED <<storeVars, hubVars, viewVars, graphVars, distVars, readyVars, histVars, gapVars, thrown>>

\* ImprovementPlan rendered over analysis a of the store's inputs
RenderAnalysisPlan(a) ==
    /\ plan = <<>>
    /\ pCore' = PlanMissingCore(a)
    /\ pOptional' = PlanMissingOptional(a)
    /\ plan' = buildPlan(PlanMissingCore(a), PlanMissingOptional(a))
    /\ UNCHANGED <<storeVars, hubVars, viewVars, graphVars, distVars, readyVars, histVars, gapVars, thrown>>

PlanAnalyses == {1}

\* ImprovementPlan unmounted
UnmountPlan ==
    /\ plan # <<>>
    /\ pCore' = <<>>
    /\ pOptional' = <<>>
    /\ plan' = <<>>
    /\ UNCHANGED <<storeVars, hubVars, viewVars, graphVars, distVars, readyVars, histVars, gapVars, thrown>>

\* the missing-skill lists of an analysis
CoreNames == {"docker", "dsa"}
OptNames == {"react", "aws"}
MaxCoreLen == 6
MaxOptLen == 5
CoreLists == UNION {[1 .. n -> CoreNames] : n \in 0 .. MaxCoreLen}
OptLists == UNION {[1 .. n -> OptNames] : n \in 0 .. MaxOptLen}

NextPlan ==
    \/ \E mc \in CoreLists, mo \in OptLists : RenderPlan(mc, mo)
    \/ RenderDemoPlan
    \/ \E a \in PlanAnalyses : RenderAnalysisPlan(a)
    \/ UnmountPlan

SpecPlan == Init /\ [][NextPlan]_vars

-----------------------------------------------------------------------------
(* The day distribution: distribute(tasks, dailyMinutes).                  *)

\* summed duration of a list of tasks
RECURSIVE SumDuration(_)
SumDuration(tasks) ==
    IF tasks = <<>> THEN 0 ELSE Head(tasks).duration + SumDuration(Tail(tasks))

\* the next task starts a new day
StartsDayWhenFull(total, duration, minutes, current) ==
    total >= minutes /\ current # <<>>

StartsDayAtBudget(total, duration, minutes, current) ==
    total + duration >= minutes /\ current # <<>>

StartsNewDay(total, duration, minutes, current) ==
    total + duration > minutes /\ current # <<>>

\* the days once the last task is placed: the day still being filled is kept
DropCurrent(days, current) == days

CloseDays(days, current) ==
    IF current = <<>> THEN days ELSE Append(days, current)

\* the single pass over the tasks, with the running total of the current day
RECURSIVE Pack(_, _, _, _, _)
Pack(tasks, minutes, days, current, total) ==
    IF tasks = <<>> THEN CloseDays(days, current)
    ELSE LET t == Head(tasks)
         IN  IF StartsNewDay(total, t.duration, minutes, current)
             THEN Pack(Tail(tasks), minutes, Append(days, current), <<t>>, t.duration)
             ELSE Pack(Tail(tasks), minutes, days, Append(current, t),
                       total + t.duration)

\* the day buckets: ordinal day, tasks in order, summed duration
distribute(tasks, minutes) ==
    LET days == Pack(tasks, minutes, <<>>, <<>>, 0)
    IN  [k \in DOMAIN days |->
            [day |-> k, tasks |-> days[k], total |-> SumDuration(days[k])]]

MaxTasks == 5
Durations == {60, 90, 120, 200}
Budgets == {0, 60, 120, 180}

\* a task is appended to the list; the buckets are recomputed
AddTask(duration) ==
    /\ Len(dTasks) < MaxTasks
    /\ dTasks' = Append(dTasks, [id |-> Len(dTasks) + 1, duration |-> duration])
    /\ buckets' = distribute(dTasks', dailyMinutes)
    /\ distributed' = TRUE
    /\ UNCHANGED <<dailyMinutes, storeVars, hubVars, viewVars, graphVars, planVars, readyVars, histVars, gapVars, thrown>>

\* the task list is emptied; the buckets are recomputed
ClearTasks ==
    /\ dTasks # <<>>
    /\ dTasks' = <<>>
    /\ buckets' = distribute(dTasks', dailyMinutes)
    /\ distributed' = TRUE
    /\ UNCHANGED <<dailyMinutes, storeVars, hubVars, viewVars, graphVars, planVars, readyVars, histVars, gapVars, thrown>>

\* the daily budget changes; the buckets are recomputed
SetDailyMinutes(minutes) ==
    /\ dailyMinutes' = minutes
    /\ buckets' = distribute(dTasks, minutes)
    /\ distributed' = TRUE
    /\ UNCHANGED <<dTasks, storeVars, hubVars, viewVars, graphVars, planVars, readyVars, histVars, gapVars, thrown>>

NextDist ==
    \/ \E d \in Durations : AddTask(d)
    \/ ClearTasks
    \/ \E m \in Budgets : SetDailyMinutes(m)

SpecDist == Init /\ [][NextDist]_vars

-----------------------------------------------------------------------------
(* Mastery gate over the plan's tasks.                                     *)

\* level of a priority tier
LevelOf(priority) ==
    CASE priority = "Critical" -> 1
      [] priority = "High" -> 2
      [] priority = "Medium" -> 3

\* the plan's tasks: one per item generated from a missing skill
PlanTasks(missingCore, missingOptional) ==
    LET items == SkillItems(missingCore, missingOptional)
    IN  [i \in DOMAIN items |->
            [skill |-> items[i].skill, priority |-> items[i].priority,
             level |-> LevelOf(items[i].priority)]]

\* a level is open when every task of the level below is mastered
LevelOpenIfAnyMastered(level, tasks, mastered) ==
    \/ level = 1
    \/ \E i \in DOMAIN tasks :
          tasks[i].level = level - 1 /\ Includes(mastered, tasks[i].skill)

LevelOpen(level, tasks, mastered) ==
    \/ level = 1
    \/ \A i \in DOMAIN tasks :
          tasks[i].level = level - 1 => Includes(mastered, tasks[i].skill)

\* a task's effective state: mastered > locked > open
EffectiveLockedFirst(task, tasks, mastered) ==
    IF ~LevelOpen(task.level, tasks, mastered) THEN "locked"
    ELSE IF Includes(mastered, task.skill) THEN "mastered"
    ELSE "open"

EffectiveState(task, tasks, mastered) ==
    IF Includes(mastered, task.skill) THEN "mastered"
    ELSE IF ~LevelOpen(task.level, tasks, mastered) THEN "locked"
    ELSE "open"

\* the tasks and the gate as read in the current state
CurrentTasks == PlanTasks(PlanMissingCore(analysis), PlanMissingOptional(analysis))
StateOf(task) == EffectiveState(task, CurrentTasks, masteredSkills)
TasksAt(level) == {i \in DOMAIN CurrentTasks : CurrentTasks[i].level = level}
Mastered(i) == Includes(masteredSkills, CurrentTasks[i].skill)

\* the store driven with plan-sized analyses
GateAnalyses == {2, 3, 4}
GateSkills == {"docker", "system design", "ci/cd", "linux", "graphql"}

NextGate ==
    \/ \E a \in GateAnalyses : SetAnalysis(a)
    \/ \E s \in GateSkills : MarkSkillMastered(s)
    \/ Clear

SpecGate == Init /\ [][NextGate]_vars

-----------------------------------------------------------------------------
(* Claims about the mastery set (checked under Spec).                      *)

\* every skill name an operation of this module can be given
Skills == {"docker", "system design", "ci/cd", "linux", "graphql", "aws"}

\* every question of the quiz has an answer and it is the correct one
AllCorrect(ans, qz) ==
    /\ Len(ans) = Len(qz)
    /\ \A k \in DOMAIN qz : ans[k] = qz[k]

\* this step ends a quiz attempt
QuizFinishes == ~quizFinished /\ quizFinished'

\* this step is one of the operations that are neither a verification nor clear
OtherOperation ==
    \/ \E a \in StoreAnalyses : SetAnalysis(a)
    \/ \E p \in StorePredictions : SetPrediction(p)
    \/ \E t \in TaskIds : ToggleTask(t)
    \/ \E h \in Hours : SetDailyCommitment(h)
    \/ \E s \in HubSkills, qz \in Quizzes : OpenStudyHub(s, qz)
    \/ CloseStudyHub
    \/ AdvanceTimer
    \/ RetryQuiz
    \/ TogglePin

\* C1: a skill enters the mastery set when and only when a quiz for that skill
\* finishes with every question answered correctly or the learner marks it
\* mastered by hand; a quiz finishing with a partial score leaves the set
\* unchanged, and setAnalysis, setPrediction, toggleTask, setDailyCommitment,
\* pin/unpin and the other StudyHub steps neither add to it nor remove from it.
C1_MasteryOnlyByVerification ==
    [][ /\ \A s \in Skills :
              (~Includes(masteredSkills, s) /\ Includes(masteredSkills', s))
              => \/ MarkSkillMastered(s)
                 \/ /\ QuizFinishes
                    /\ selectedSkill = s
                    /\ AllCorrect(answers', quiz)
        /\ (QuizFinishes /\ AllCorrect(answers', quiz))
              => Includes(masteredSkills', selectedSkill)
        /\ \A s \in Skills : MarkSkillMastered(s) => Includes(masteredSkills', s)
        /\ (QuizFinishes /\ ~AllCorrect(answers', quiz))
              => masteredSkills' = masteredSkills
        /\ OtherOperation => masteredSkills' = masteredSkills
      ]_vars

\* C1 witness: a two-question quiz has just been passed with a perfect score
\* and its skill, which was not mastered by hand, is the mastery set
C1_Witness ==
    /\ selectedSkill # NoSkill
    /\ quizFinished
    /\ Len(quiz) = 2
    /\ AllCorrect(answers, quiz)
    /\ masteredSkills = <<selectedSkill>>
    /\ ls.cse_mastered_skills = Stored(masteredSkills)

\* C2: the mastery set only grows; a step that removes a skill from it is the
\* clear action, which empties it together with analysis, prediction, previous
\* analysis and completed tasks and puts the daily commitment back to 2.
C2_MasteryMonotoneUntilClear ==
    [][ (\E s \in Skills : Includes(masteredSkills, s) /\ ~Includes(masteredSkills', s))
        => /\ Clear
           /\ masteredSkills' = <<>>
           /\ analysis' = NoAnalysis
           /\ prediction' = NoPrediction
           /\ previousAnalysis' = NoAnalysis
           /\ completedTasks' = <<>>
           /\ dailyCommitment' = 2
      ]_vars

\* C2 witness: an analysis had been set and the open quiz was passed (so its
\* skill was mastered), and clear has since emptied the session
C2_Witness ==
    /\ selectedSkill # NoSkill
    /\ quizFinished
    /\ AllCorrect(answers, quiz)
    /\ ls.cse_score_history.has
    /\ masteredSkills = <<>>
    /\ analysis = NoAnalysis
    /\ ~ls.cse_mastered_skills.has
    /\ dailyCommitment = 2

-----------------------------------------------------------------------------
(* Claims about the gate (checked under SpecGate).                         *)

Levels == {1, 2, 3}
CurrentCore == PlanMissingCore(analysis)
CurrentOptional == PlanMissingOptional(analysis)
\* the first three missing-core skills, the next two, and whether all of a
\* list is in the mastery set
AllMastered(skills) == \A k \in DOMAIN skills : Includes(masteredSkills, skills[k])

-----------------------------------------------------------------------------
(* Claims about the viewport (checked under SpecView).                     *)

\* C5: after any sequence of wheel updates from the default view the scale is
\* within [0.35, 3.0]; an update that would take it below 0.35 gives exactly
\* 0.35, one that would take it above 3.0 gives exactly 3.0, and one that
\* stays inside the range gives scale - deltaY * zoomSpeed.
C5_ScaleClamped ==
    /\ [](view.scale >= MinScale /\ view.scale <= MaxScale)
    /\ [][ \A d \in WheelDeltas : Wheel(d) =>
              LET raw == view.scale - d * ZoomSpeed
              IN  /\ raw < MinScale => view'.scale = MinScale
                  /\ raw > MaxScale => view'.scale = MaxScale
                  /\ (raw >= MinScale /\ raw <= MaxScale) => view'.scale = raw
         ]_vars

\* C5 witness: zooming in has hit the upper end of the range; 3.0 is not a
\* whole number of notches away from the default 0.85, so only the clamp
\* produces it
C5_Witness == view.scale = MaxScale

-----------------------------------------------------------------------------
(* Claims about the graph (checked under SpecGraph).                       *)

Rendered == gNodes # <<>>
NodeIds == {gNodes[k].id : k \in DOMAIN gNodes}
NeedsBuilt == SelectSeq(gEdges, LAMBDA e : e.type = "needs")
\* the (prerequisite, dependent) occurrences of the map with both ends retained
RetainedPairs ==
    UNION {{<<i, k>> : k \in {j \in DOMAIN gProps.dependencies[i].prereqs :
                                /\ gProps.dependencies[i].skill \in NodeIds
                                /\ gProps.dependencies[i].prereqs[j] \in NodeIds}} :
           i \in DOMAIN gProps.dependencies}
ScenarioC == <<[skill |-> "kubernetes", prereqs |-> <<"docker", "linux">>]>>

\* C6: every "needs" edge of the built edge list has its prerequisite and its
\* dependent among the graph's nodes; the pairs of the map with both ends
\* retained each give one edge and the others give none; with the map
\* {kubernetes: [docker, linux]} and nodes kubernetes and docker but not linux
\* the only "needs" edge is docker -> kubernetes.
C6_NeedsEdgesRetained ==
    Rendered =>
        /\ \A k \in DOMAIN NeedsBuilt :
              NeedsBuilt[k].from \in NodeIds /\ NeedsBuilt[k].to \in NodeIds
        /\ Len(NeedsBuilt) = Cardinality(RetainedPairs)
        /\ \A pr \in RetainedPairs :
              \E k \in DOMAIN NeedsBuilt :
                  /\ NeedsBuilt[k].to = gProps.dependencies[pr[1]].skill
                  /\ NeedsBuilt[k].from = gProps.dependencies[pr[1]].prereqs[pr[2]]
        /\ (/\ gProps.dependencies = ScenarioC
            /\ "kubernetes" \in NodeIds /\ "docker" \in NodeIds /\ "linux" \notin NodeIds)
              => NeedsBuilt = <<[from |-> "docker", to |-> "kubernetes", type |-> "needs"]>>

\* C6 witness: the map {kubernetes: [docker, linux]} rendered over a graph in
\* which "linux" was cut off by the missing-core display cap
C6_Witness ==
    /\ Rendered
    /\ gProps.dependencies = ScenarioC
    /\ gProps.missingCore = LongList
    /\ "kubernetes" \in NodeIds /\ "docker" \in NodeIds /\ "linux" \notin NodeIds
    /\ Len(NeedsBuilt) = 1

-----------------------------------------------------------------------------
(* Claims about the day distribution (checked under SpecDist).             *)

BucketIds == DOMAIN buckets
RECURSIVE ConcatBuckets(_)
ConcatBuckets(bs) ==
    IF bs = <<>> THEN <<>> ELSE Head(bs).tasks \o ConcatBuckets(Tail(bs))
\* summed duration of the first n tasks of a bucket
PrefixSum(b, n) == SumDuration(SubSeq(b.tasks, 1, n))

\* C7: every day bucket with more than one task has a summed duration of at
\* most dailyMinutes; a task whose duration alone exceeds dailyMinutes is the
\* only task of its bucket.
C7_BucketWithinBudget ==
    /\ \A k \in BucketIds :
          Len(buckets[k].tasks) > 1 =>
              SumDuration(buckets[k].tasks) <= dailyMinutes
    /\ \A k \in BucketIds :
          \A j \in DOMAIN buckets[k].tasks :
              buckets[k].tasks[j].duration > dailyMinutes =>
                  buckets[k].tasks = <<buckets[k].tasks[j]>>

\* C7 witness: a plan with a bucket of two tasks within the budget and a
\* bucket whose single task exceeds the budget
C7_Witness ==
    /\ distributed
    /\ \E k \in BucketIds : Len(buckets[k].tasks) > 1
    /\ \E k \in BucketIds :
          /\ Len(buckets[k].tasks) = 1
          /\ buckets[k].tasks[1].duration > dailyMinutes

\* C8: the buckets concatenated in day order are the task list; days are
\* numbered 1, 2, ...; no bucket is empty; an empty task list has no buckets.
C8_EveryTaskOnceInOrder ==
    /\ ConcatBuckets(buckets) = dTasks
    /\ \A k \in BucketIds : buckets[k].day = k /\ buckets[k].tasks # <<>>
    /\ dTasks = <<>> => buckets = <<>>

\* C8 witness: five tasks spread over several days, one of which holds two
C8_Witness ==
    /\ distributed
    /\ Len(dTasks) = MaxTasks
    /\ Len(buckets) >= 3
    /\ \E k \in BucketIds : Len(buckets[k].tasks) = 2

\* C9: a task opens a new day exactly when it does not fit: the summed
\* duration of a day plus the first task of the next day is greater than
\* dailyMinutes, and every later task of a day fitted with the tasks before it.
C9_GreedyPolicy ==
    /\ \A k \in BucketIds :
          k + 1 \in BucketIds =>
              SumDuration(buckets[k].tasks) + buckets[k + 1].tasks[1].duration
                  > dailyMinutes
    /\ \A k \in BucketIds :
          \A j \in DOMAIN buckets[k].tasks :
              j > 1 => PrefixSum(buckets[k], j) <= dailyMinutes

\* C9 witness: three 120-minute tasks and two 60-minute tasks at 180 minutes
\* a day give the days [120], [120], [120, 60], [60]
C9_Witness ==
    /\ distributed
    /\ dailyMinutes = 180
    /\ [k \in DOMAIN dTasks |-> dTasks[k].duration] = <<120, 120, 120, 60, 60>>
    /\ [k \in BucketIds |-> Len(buckets[k].tasks)] = <<1, 1, 2, 1>>

-----------------------------------------------------------------------------
(* Claims about buildPlan (checked under SpecPlan).                        *)

PlanBuilt == plan # <<>>
TierRank(priority) ==
    CASE priority = "Critical" -> 1
      [] priority = "High" -> 2
      [] priority = "Medium" -> 3
\* how many skills a tier takes from a list after skipping some, up to a cap
Taken(list, skipped, cap) == Min2(Max2(Len(list) - skipped, 0), cap)
\* the plan is: Critical items for the first nc missing-core skills, High items
\* for the next nh, Medium items for the first nm missing-optional skills
TiersAre(items, nc, nh, nm) ==
    /\ Len(items) = nc + nh + nm
    /\ \A i \in 1 .. nc :
          items[i].skill = pCore[i] /\ items[i].priority = "Critical"
    /\ \A i \in 1 .. nh :
          items[nc + i].skill = pCore[nc + i] /\ items[nc + i].priority = "High"
    /\ \A i \in 1 .. nm :
          /\ items[nc + nh + i].skill = pOptional[i]
          /\ items[nc + nh + i].priority = "Medium"
TierOrdered(items) ==
    \A i, j \in DOMAIN items :
        i < j => TierRank(items[i].priority) <= TierRank(items[j].priority)

BuiltTasks == PlanTasks(pCore, pOptional)

-----------------------------------------------------------------------------
(* Claims about a task's effective state (checked under SpecGate).         *)

\* the level of task j is open: it is level 1, or every task one level below
\* has its skill in the mastery set
LevelOfTaskOpen(j) ==
    \/ CurrentTasks[j].level = 1
    \/ \A i \in TasksAt(CurrentTasks[j].level - 1) : Mastered(i)

\* C12: a task is mastered whenever its skill is in the mastery set, also when
\* its level is locked; it is locked when its level is locked and it is not
\* mastered; it is open when its level is open and it is not mastered; a
\* level-1 task is never locked.
C12_EffectiveStatePriority ==
    \A j \in DOMAIN CurrentTasks :
        /\ Mastered(j) => StateOf(CurrentTasks[j]) = "mastered"
        /\ (~Mastered(j) /\ ~LevelOfTaskOpen(j)) => StateOf(CurrentTasks[j]) = "locked"
        /\ (~Mastered(j) /\ LevelOfTaskOpen(j)) => StateOf(CurrentTasks[j]) = "open"
        /\ CurrentTasks[j].level = 1 => StateOf(CurrentTasks[j]) # "locked"

\* C12 witness: a task whose skill is in the mastery set while its level is
\* locked, next to a locked task and an open task
C12_Witness ==
    /\ \E j \in DOMAIN CurrentTasks :
          Mastered(j) /\ ~LevelOfTaskOpen(j) /\ StateOf(CurrentTasks[j]) = "mastered"
    /\ \E j \in DOMAIN CurrentTasks : StateOf(CurrentTasks[j]) = "locked"
    /\ \E j \in DOMAIN CurrentTasks : StateOf(CurrentTasks[j]) = "open"

-----------------------------------------------------------------------------
(* Claims about the SkillGap page and its graph (checked under SpecGap).   *)

\* the ids of the graph's nodes without the centre, in node order
RingIds == [k \in 1 .. Len(GapNodes) - 1 |-> GapNodes[k + 1].id]
\* the skill names handed to the graph, in list order
InputNames == GapDetected \o coreMissing \o optMissing
\* a list without the names that repeat an earlier name up to letter case
RECURSIVE FirstOccurrences(_, _)
FirstOccurrences(names, seen) ==
    IF names = <<>> THEN <<>>
    ELSE IF toLowerCase(Head(names)) \in seen
         THEN FirstOccurrences(Tail(names), seen)
         ELSE <<Head(names)>>
              \o FirstOccurrences(Tail(names), seen \cup {toLowerCase(Head(names))})

\* C13 as claimed: no two nodes of the built graph have the same identity up
\* to letter case, and the nodes without the centre are the first occurrences
\* of the input skill names, mastered skills appended to the detected list
\* included.
C13_AsClaimed ==
    gapMounted =>
        /\ \A i, j \in DOMAIN GapNodes :
              i # j => toLowerCase(GapNodes[i].id) # toLowerCase(GapNodes[j].id)
        /\ RingIds = FirstOccurrences(InputNames, {})

\* the missing skills of the analysis, and the mastered ones among them up to
\* letter case
MissingOfAnalysis ==
    GapField(AnalysisData[analysis].missing_core_skills)
        \o GapField(AnalysisData[analysis].missing_optional_skills)
ShownAsMissing(skill) ==
    \/ \E k \in DOMAIN GapNodes :
          GapNodes[k].id = skill /\ GapNodes[k].type \in {"missing-core", "missing-optional"}
    \/ \E g \in DOMAIN gaps : gaps[g].skill = skill

\* C14 as claimed: a missing skill whose name is in the mastery set, compared
\* without regard to letter case, is shown neither as a missing node nor as a
\* gap entry; one whose name is not in the set is shown as both.
C14_AsClaimed ==
    gapMounted =>
        \A k \in DOMAIN MissingOfAnalysis :
            ShownAsMissing(MissingOfAnalysis[k]) <=> NotMasteredFolded(MissingOfAnalysis[k])

\* C15 as claimed: the map the graph is built with is always a mapping from
\* skill names to lists, a failed or malformed answer leaving it empty, and no
\* render throws.
C15_AsClaimed ==
    /\ deps.form = "map"
    /\ \A k \in DOMAIN deps.entries : deps.entries[k].list
    /\ ~RenderThrows

-----------------------------------------------------------------------------
(* Claims about loading persisted state (checked under SpecLoad).          *)

\* the list a key loads as: the stored list, [] when absent or not parseable
LoadsAsList(item) == IF item.has /\ item.ok THEN item.v ELSE <<>>

\* C17 as claimed: loading never throws, and a reload takes every key on its
\* own: an absent or unparseable mastered-skill or completed-task list loads
\* as the empty list, an absent or unparseable daily commitment as 2, whatever
\* the other keys hold.
C17_AsClaimed ==
    /\ [](thrown = "none")
    /\ [][ Reload =>
             /\ masteredSkills' = LoadsAsList(ls.cse_mastered_skills)
             /\ completedTasks' = LoadsAsList(ls.cse_completed_tasks)
             /\ (~(ls.cse_daily_commitment.has /\ ls.cse_daily_commitment.ok)
                    => dailyCommitment' = 2)
         ]_vars

-----------------------------------------------------------------------------
(* Scenario claims about the plan and its days (checked under SpecPlan).   *)

\* the items of the plan made from skills, as tasks with their minutes
PlanMinutes ==
    [i \in 1 .. Len(plan) - 1 |-> [id |-> i, duration |-> plan[i].duration.from]]
\* priorities and minutes of the items made from skills
SkillPriorities == [i \in 1 .. Len(plan) - 1 |-> plan[i].priority]
SkillMinutes == [i \in 1 .. Len(plan) - 1 |-> plan[i].duration.from]
\* how many tasks each day of a distribution holds
DaySizes(days) == [k \in DOMAIN days |-> Len(days[k].tasks)]
ScenarioA ==
    /\ PlanBuilt
    /\ pCore = <<"docker", "system design", "ci/cd">>
    /\ pOptional = <<"graphql", "aws">>

-----------------------------------------------------------------------------
(* Claims about the graph's nodes (checked under SpecGraph).               *)

\* the skills a ring shows: the list up to its cap
Shown(list, cap) == SubSeq(list, 1, Min2(Len(list), cap))
\* the nodes from position first on, one per skill of a ring
RingIs(first, skills, type) ==
    \A k \in DOMAIN skills :
        /\ gNodes[first + k].id = skills[k]
        /\ gNodes[first + k].label = skills[k]
        /\ gNodes[first + k].type = type

\* C20: the graph has the centre node "You" first, then one node for each of
\* the first 10 detected, the first 6 missing-core and the first 5
\* missing-optional skills and no other node; with three empty lists it is the
\* centre node alone and has no edges.
C20_NodesWithinCaps ==
    Rendered =>
        LET inner == Shown(gProps.detected, 10)
            core == Shown(gProps.missingCore, 6)
            opt == Shown(gProps.missingOptional, 5)
        IN  /\ Len(gNodes) = 1 + Len(inner) + Len(core) + Len(opt)
            /\ gNodes[1].id = "you" /\ gNodes[1].label = "You"
            /\ gNodes[1].type = "center"
            /\ \A k \in DOMAIN gNodes : k > 1 => gNodes[k].type # "center"
            /\ RingIs(1, inner, "detected")
            /\ RingIs(1 + Len(inner), core, "missing-core")
            /\ RingIs(1 + Len(inner) + Len(core), opt, "missing-optional")
            /\ (Len(inner) + Len(core) + Len(opt) = 0)
                  => (gNodes = <<CenterNode>> /\ gEdges = <<>>)

\* C20 witness: every list is longer than its cap and the graph has the
\* centre and 10 + 6 + 5 nodes
C20_Witness ==
    /\ Rendered
    /\ gProps.detected = LongList
    /\ gProps.missingCore = LongList
    /\ gProps.missingOptional = LongList
    /\ Len(gNodes) = 22

(***************************************************************************)
(* Claims about the plan's durations and days (checked under SpecPlan).    *)
(***************************************************************************)
Minutes(n) == [from |-> n, to |-> n, unit |-> "min est."]
IsProject(item) == item.skill = "project"

Positions == [x : Coords, y : Coords]

\* C22: dragging starts only with a press of the primary button (a press of
\* another button changes nothing), ends only with handleMouseUp (release or
\* pointer leaving), each move while dragging adds the delta between the
\* current and the previous pointer position to the translate, and what the
\* moves of one drag have added equals the last pointer position minus the
\* press position (the press position plus what was added is the last
\* pointer position).
C22_DragMachine ==
    /\ [](dragReach = prevPos)
    /\ [][ /\ (~isDragging /\ isDragging') => MouseDown(0, prevPos'.x, prevPos'.y)
           /\ (isDragging /\ ~isDragging') => MouseUp
           /\ ~(UNCHANGED viewVars) =>
                  \A b \in Buttons \ {0}, c \in Positions : ~MouseDown(b, c.x, c.y)
           /\ \A c \in Positions :
                  (/\ isDragging
                   /\ ~(/\ view'.x = view.x + (c.x - prevPos.x)
                        /\ view'.y = view.y + (c.y - prevPos.y)
                        /\ view'.scale = view.scale
                        /\ prevPos' = c))
                      => ~MouseMove(c.x, c.y)
         ]_vars

\* C22 witness: a drag has moved the translate left and down by one pixel
\* each, ending with the pointer at (0, 1), and is over.
C22_Witness ==
    /\ ~isDragging
    /\ prevPos = [x |-> 0, y |-> 1]
    /\ view.x = -1
    /\ view.y = 1
    /\ dragReach = prevPos

InitialView == [x |-> 0, y |-> 0, scale |-> DefaultScale]

\* C23: from any view reached by drags and zooms, Reset View gives exactly
\* {x: 0, y: 0, scale: defaultScale}, which is the initial view, and pressing
\* it again on that view changes nothing.
C23_ResetRestoresInitialView ==
    /\ [](viewReset # "no" => view = InitialView)
    /\ [][ ResetView =>
              /\ view' = InitialView
              /\ (viewReset # "no" => view' = view)
         ]_vars

\* C23 witness: Reset View has restored a moved or zoomed view and has then
\* been pressed again, while a drag is in progress.
C23_Witness ==
    /\ viewReset = "again"
    /\ isDragging
    /\ view = InitialView

(***************************************************************************)
(* Claims about cyclic prerequisite maps (checked under SpecGraph).        *)
(***************************************************************************)
Deps == gProps.dependencies
\* the names the map mentions, as keys or as prerequisites
MapNames ==
    {Deps[i].skill : i \in DOMAIN Deps}
        \cup UNION {Range(Deps[i].prereqs) : i \in DOMAIN Deps}
\* a needs b according to the map
Requires(a, b) == \E i \in DOMAIN Deps : Deps[i].skill = a /\ Includes(Deps[i].prereqs, b)
\* the map has a skill listing itself or two skills requiring each other
Cyclic == \E a, b \in MapNames : Requires(a, b) /\ Requires(b, a)
EdgeCount(from, to) ==
    Cardinality({k \in DOMAIN NeedsBuilt :
                    NeedsBuilt[k].from = from /\ NeedsBuilt[k].to = to})
PairCount(from, to) ==
    Cardinality({pr \in RetainedPairs :
                    Deps[pr[1]].skill = to /\ Deps[pr[1]].prereqs[pr[2]] = from})
RECURSIVE TotalPrereqs(_)
TotalPrereqs(entries) ==
    IF entries = <<>> THEN 0
    ELSE Len(Head(entries).prereqs) + TotalPrereqs(Tail(entries))

\* C24: building the graph completes for every prerequisite map, cyclic ones
\* included; the edges come from one pass over the map's entries, so there
\* are never more "needs" edges than prerequisite occurrences in the map, and
\* each retained (prerequisite, dependent) occurrence gives one edge, also
\* when the two skills require each other or a skill lists itself.
C24_CyclicMapOnePass ==
    /\ ~Rendered => \A p \in GraphInputs : ENABLED RenderGraph(p)
    /\ Rendered =>
          /\ Len(NeedsBuilt) <= TotalPrereqs(Deps)
          /\ \A a, b \in MapNames : EdgeCount(a, b) = PairCount(a, b)

\* C24 witness: a graph built over a map in which kubernetes and docker
\* require each other and linux lists itself twice, all three being nodes.
C24_Witness ==
    /\ Rendered
    /\ Cyclic
    /\ Deps = <<[skill |-> "kubernetes", prereqs |-> <<"docker", "linux">>],
                [skill |-> "docker", prereqs |-> <<"kubernetes">>],
                [skill |-> "linux", prereqs |-> <<"linux", "linux">>]>>
    /\ {"kubernetes", "docker", "linux"} \subseteq NodeIds
    /\ EdgeCount("docker", "kubernetes") = 1
    /\ EdgeCount("kubernetes", "docker") = 1
    /\ EdgeCount("linux", "linux") = 2
    /\ Len(NeedsBuilt) = 5

(***************************************************************************)
(* Claims about the quiz and the store (checked under Spec).               *)
(***************************************************************************)

\* C25 as stated: while a StudyHub is open the current question index is one
\* of 0 .. questions.length - 1, whatever the interleaving of answer clicks,
\* auto-advance timers and Retry Quiz, and the quiz is scored only by the
\* answer to the last question, once per attempt.
C25_AsClaimed ==
    /\ [](selectedSkill # NoSkill => (currentQ >= 0 /\ currentQ <= Len(quiz) - 1))
    /\ [][QuizFinishes => (~quizFinished /\ currentQ = Len(quiz) - 1)]_vars

\* the state ResumeProvider would initialise to from the present storage
Reinitialised ==
    [analysis |-> loadJson(ls.cse_analysis, NoAnalysis),
     prediction |-> loadJson(ls.cse_prediction, NoPrediction),
     previousAnalysis |-> loadJson(ls.cse_prev_analysis, NoAnalysis),
     masteredSkills |-> loadJson(ls.cse_mastered_skills, <<>>),
     completedTasks |-> loadJson(ls.cse_completed_tasks, <<>>),
     dailyCommitment |-> LoadDailyCommitment(ls)]
InMemory ==
    [analysis |-> analysis, prediction |-> prediction,
     previousAnalysis |-> previousAnalysis, masteredSkills |-> masteredSkills,
     completedTasks |-> completedTasks, dailyCommitment |-> dailyCommitment]

\* C26 as stated: after any sequence of the store's operations (any number
\* of hours, 0 included), re-initialising ResumeProvider from local storage
\* yields the analysis, prediction, previousAnalysis, masteredSkills,
\* completedTasks and dailyCommitment the in-memory state has.
C26_AsClaimed == Reinitialised = InMemory

(***************************************************************************)
(* Claims about what the viewport actions change (checked under SpecView). *)
(***************************************************************************)
\* C27: a wheel zoom changes only the scale and leaves translateX and
\* translateY as they are (a step that changes the translate or the drag
\* state is no wheel zoom), a drag move changes only the translate and leaves
\* the scale (a step that changes the scale is no pointer move), a pointer
\* move while not dragging changes nothing, and no
\* viewport action changes the nodes (their ids and their layout placement)
\* or the edges: every step taken on a mounted graph is a wheel, press, move,
\* release or reset, and leaves them as they are.
C27_ViewportFrames ==
    [][ /\ (view'.x # view.x \/ view'.y # view.y \/ ~(UNCHANGED <<isDragging, prevPos>>))
              => \A d \in WheelDeltas : ~Wheel(d)
        /\ (view'.scale # view.scale)
              => \A c \in Positions : ~MouseMove(c.x, c.y)
        /\ (~isDragging /\ ~(UNCHANGED <<view, isDragging, prevPos>>))
              => \A c \in Positions : ~MouseMove(c.x, c.y)
        /\ GraphMounted => UNCHANGED <<gProps, gNodes, gEdges>>
      ]_vars

\* C27 witness: over a graph of five nodes with a needs edge, the view has
\* been both dragged and zoomed.
C27_Witness ==
    /\ Len(gNodes) = 5
    /\ \E k \in DOMAIN gEdges : gEdges[k].type = "needs"
    /\ view.x # 0 /\ view.y # 0
    /\ view.scale # DefaultScale

(***************************************************************************)
(* Claims about the plan's day ranges (checked under SpecPlan).            *)
(***************************************************************************)
DaysOfTier(priority) == IF priority = "Critical" THEN 2 ELSE 1
RECURSIVE SkillDays(_, _)
\* the days taken by the first n items of the plan
SkillDays(items, n) ==
    IF n = 0 THEN 0 ELSE DaysOfTier(items[n].priority) + SkillDays(items, n - 1)

\* C28: in the plan buildPlan returns the first item starts on day 1, every
\* item starts on the day after the previous item's last day, Critical items
\* span two days and High and Medium items one, and the final project item
\* is on day 1 + the days of all the items made from skills.
C28_ContiguousDays ==
    PlanBuilt =>
        /\ plan[1].dayFrom = 1
        /\ \A i \in 2 .. Len(plan) : plan[i].dayFrom = plan[i - 1].dayTo + 1
        /\ \A i \in 1 .. Len(plan) - 1 :
              /\ ~IsProject(plan[i])
              /\ plan[i].dayTo - plan[i].dayFrom + 1 = DaysOfTier(plan[i].priority)
        /\ LET last == plan[Len(plan)]
           IN  /\ IsProject(last)
               /\ last.dayFrom = 1 + SkillDays(plan, Len(plan) - 1)
               /\ last.dayTo = last.dayFrom

\* C28 witness: a plan with every tier filled, three Critical, two High and
\* two Medium items on days 1 to 10, the project item on day 11.
C28_Witness ==
    /\ PlanBuilt
    /\ Len(plan) = 8
    /\ plan[3].priority = "Critical" /\ plan[3].dayFrom = 5 /\ plan[3].dayTo = 6
    /\ plan[5].priority = "High" /\ plan[5].dayFrom = 8
    /\ plan[7].priority = "Medium" /\ plan[7].dayTo = 10
    /\ plan[8].dayFrom = 11

(***************************************************************************)
(* Claims about the score history (checked under SpecHist).                *)
(***************************************************************************)
History == loadHistory(ls)

\* C29: starting from an empty history, after any sequence of saveScore
\* calls the stored history holds at most 12 entries, in the order of the
\* days they were written, each labelled with its day; a save whose label
\* equals the last entry's overwrites that entry's value and role and
\* appends nothing, any other save appends, and appending to 12 entries
\* drops the oldest.
C29_HistoryBounded ==
    /\ [](/\ Len(History) <= MAX_ENTRIES
          /\ Len(savedAt) = Len(History)
          /\ \A i \in DOMAIN History :
                /\ History[i].label = toLocaleDateString(savedAt[i])
                /\ i > 1 => savedAt[i - 1] < savedAt[i])
    /\ [][ (History' # History) =>
              LET n == Len(History)
                  new == History'[Len(History')]
              IN  /\ new.label = toLocaleDateString(now)
                  /\ IF n > 0 /\ History[n].label = new.label
                     THEN History' = [History EXCEPT ![n] = new]
                     ELSE IF n = MAX_ENTRIES
                          THEN History' = Append(Tail(History), new)
                          ELSE History' = Append(History, new)
         ]_vars

\* C29 witness: twelve entries of which the oldest, written on the first
\* day, has been dropped, and the last was overwritten a year after it was
\* first written.
C29_Witness ==
    /\ Len(History) = MAX_ENTRIES
    /\ savedAt[1] > 0
    /\ savedAt[MAX_ENTRIES] >= YearDays
    /\ savedAt[MAX_ENTRIES - 1] = savedAt[MAX_ENTRIES] - YearDays - 1

(***************************************************************************)
(* Claims about the readiness class (checked under SpecReady).             *)
(***************************************************************************)

\* C30 as stated: for every integer score from 0 to 100 exactly one class
\* of the page is highlighted as current, and it is the one whose displayed
\* range [min, max] contains the score.
C30_AsClaimed ==
    readinessScore # NoScore =>
        /\ Cardinality(Highlighted) = 1
        /\ \A i \in Highlighted :
              CLASSES[i].min <= readinessScore /\ readinessScore <= CLASSES[i].max
====
